---- MODULE Spec2Model ----
(***************************************************************************)
(* A model of plenum's Client (src/plenum/client/client.py): the inbox of  *)
(* node messages and the reply quorum (getReply / hasConsensus), and the   *)
(* connection gate that sends or queues submitted requests.                *)
(***************************************************************************)
EXTENDS Integers, Sequences, FiniteSets, TLC

\* ------------------------------------------------------------------ bounds
MaxInbox == 3
MaxReqId == 2
MaxOps == 2
MaxPool == 7

\* Pool sizes the client is built with: a pool that tolerates no faulty node
\* (f = 0) and the smallest pool that tolerates one (f = 1).
NodeCounts == {2, 4}

\* ------------------------------------------------------------------ state
VARIABLES
    nodeReg,                \* names of the nodes of the pool
    f,                      \* self.f
    minNodesToConnect,      \* self.minNodesToConnect
    totalNodes,             \* self.totalNodes
    hasLedger,              \* self._ledger is set (no nodeReg was given)
    mode,                   \* self.mode
    status,                 \* self.status (Motor)
    conns,                  \* self.nodestack.conns
    lastReqId,              \* self.lastReqId
    reqsPendingConnection,  \* deque of (request, signer)
    inBox,                  \* deque of (msg, frm)
    sent,                   \* the requests nodestack.send was given, in order
    created,                \* every request createRequest made, in order
    lastOp                  \* the latest call: its arguments, what it returned
                            \* and what it handed to its collaborators

vars == <<nodeReg, f, minNodesToConnect, totalNodes, hasLedger, mode, status,
          conns, lastReqId, reqsPendingConnection, inBox, sent, created, lastOp>>

config == <<nodeReg, f, minNodesToConnect, totalNodes, hasLedger>>

\* ------------------------------------------------------------------ values
None == "None"
REPLY == "REPLY"
POOL_LEDGER_TXNS == "POOL_LEDGER_TXNS"
LEDGER_STATUS == "LEDGER_STATUS"
CONSISTENCY_PROOF == "CONSISTENCY_PROOF"
CATCHUP_REP == "CATCHUP_REP"

typs == {POOL_LEDGER_TXNS, LEDGER_STATUS, CONSISTENCY_PROOF, CATCHUP_REP}

ReqIds == 1..2
ResultValues == {"R1", "R2"}

\* A reply's result: structural equality is equality of the whole record.
Results == [reqId : ReqIds, val : ResultValues]

\* The messages a node can put on the wire: ordinary replies, the four
\* pool-protocol kinds (carrying the fields of their tagged tuple, which are
\* left out here), a reply without its result and a message without the
\* operation tag.
NodeMsgs ==
    {[op |-> REPLY, result |-> r] : r \in Results}
    \cup {[op |-> t] : t \in typs}
    \cup {[op |-> REPLY]}
    \cup {[body |-> "untagged"]}

\* getMaxFailures of plenum.common.util
getMaxFailures(nodeCount) == IF nodeCount >= 1 THEN (nodeCount - 1) \div 3 ELSE 0

\* ------------------------------------------------------------------ quorum
\* A dict that keeps a key's first value.
DictPutFirstWins(d, frm, msg) ==
    IF \E i \in 1..Len(d) : d[i][1] = frm THEN d ELSE Append(d, <<frm, msg>>)

\* One step of the dict comprehension {frm: msg ...}: a key keeps the place
\* of its first insertion and takes the latest value.
DictPut(d, frm, msg) ==
    IF \E i \in 1..Len(d) : d[i][1] = frm
    THEN [i \in 1..Len(d) |-> IF d[i][1] = frm THEN <<frm, msg>> ELSE d[i]]
    ELSE Append(d, <<frm, msg>>)

RECURSIVE ScanInbox(_, _, _)
ScanInbox(box, reqId, acc) ==
    IF box = <<>> THEN [raised |-> FALSE, replies |-> acc]
    ELSE LET msg == Head(box)[1]
             frm == Head(box)[2]
         IN  IF "op" \notin DOMAIN msg
             THEN [raised |-> TRUE, replies |-> <<>>]
             ELSE IF msg.op # REPLY
             THEN ScanInbox(Tail(box), reqId, acc)
             ELSE IF "result" \notin DOMAIN msg
             THEN [raised |-> TRUE, replies |-> <<>>]
             ELSE IF msg.result.reqId = reqId
             THEN ScanInbox(Tail(box), reqId, DictPut(acc, frm, msg))
             ELSE ScanInbox(Tail(box), reqId, acc)

getRepliesFromAllNodes(box, reqId) == ScanInbox(box, reqId, <<>>)

CountOf(items, x) == Cardinality({i \in 1..Len(items) : items[i] = x})

\* checkIfMoreThanFSameItems of plenum.common.util: the result reported most
\* often when it is reported more than maxF times, otherwise False.
checkIfMoreThanFSameItems(items, maxF) ==
    LET best == CHOOSE i \in 1..Len(items) :
                    /\ \A j \in 1..Len(items) :
                           CountOf(items, items[j]) <= CountOf(items, items[i])
                    /\ \A j \in 1..(i - 1) :
                           CountOf(items, items[j]) < CountOf(items, items[i])
    IN  IF CountOf(items, items[best]) > maxF
        THEN [kind |-> "result", result |-> items[best]]
        ELSE [kind |-> "False"]

\* A quorum of f repliers in place of f + 1.
hasConsensusWithFRepliers(box, maxF, reqId) ==
    LET got == getRepliesFromAllNodes(box, reqId)
        replies == got.replies
        resultsList == [i \in 1..Len(replies) |-> replies[i][2].result]
    IN  IF got.raised THEN [kind |-> "KeyError"]
        ELSE IF Len(replies) = 0 THEN [kind |-> "KeyError"]
        ELSE IF maxF > Len(replies) THEN [kind |-> "False"]
        ELSE IF \A i \in 1..Len(resultsList) : resultsList[i] = resultsList[1]
        THEN [kind |-> "result", result |-> resultsList[1]]
        ELSE checkIfMoreThanFSameItems(resultsList, maxF)

hasConsensus(box, maxF, reqId) ==
    LET got == getRepliesFromAllNodes(box, reqId)
        replies == got.replies
        resultsList == [i \in 1..Len(replies) |-> replies[i][2].result]
    IN  IF got.raised THEN [kind |-> "KeyError"]
        ELSE IF Len(replies) = 0 THEN [kind |-> "KeyError"]
        ELSE IF maxF + 1 > Len(replies) THEN [kind |-> "False"]
        ELSE IF \A i \in 1..Len(resultsList) : resultsList[i] = resultsList[1]
        THEN [kind |-> "result", result |-> resultsList[1]]
        ELSE checkIfMoreThanFSameItems(resultsList, maxF)

getReply(box, maxF, reqId) ==
    LET cons == hasConsensus(box, maxF, reqId)
    IN  IF cons.kind = "KeyError" THEN [status |-> "NOT_FOUND"]
        ELSE IF cons.kind = "result"
        THEN [status |-> "CONFIRMED", reply |-> cons.result]
        ELSE [status |-> "UNCONFIRMED"]

\* ------------------------------------------------------------------ init
\* A setF that takes f itself as the number of nodes to connect to.
setFWithoutPlusOne(nodeCount) ==
    [f |-> getMaxFailures(nodeCount),
     minNodesToConnect |-> getMaxFailures(nodeCount),
     totalNodes |-> nodeCount]

setF(nodeCount) ==
    [f |-> getMaxFailures(nodeCount),
     minNodesToConnect |-> getMaxFailures(nodeCount) + 1,
     totalNodes |-> nodeCount]

\* The client as its constructor leaves it, for a pool of one of the sizes
\* in counts.
InitFor(counts) ==
    /\ \E n \in counts :
           /\ nodeReg = 1..n
           /\ f = setF(n).f
           /\ minNodesToConnect = setF(n).minNodesToConnect
           /\ totalNodes = setF(n).totalNodes
    /\ hasLedger \in BOOLEAN
    /\ mode = IF hasLedger THEN None ELSE "discovered"
    /\ status = "not_started"
    /\ conns = {}
    /\ lastReqId = 0
    /\ reqsPendingConnection = <<>>
    /\ inBox = <<>>
    /\ sent = <<>>
    /\ created = <<>>
    /\ lastOp = [op |-> "init"]

Init == InitFor(NodeCounts)

\* ------------------------------------------------------------------ inbox
\* The handlers of ledger status and of consistency proof taken for each
\* other.
HandlerSwapped(op) ==
    CASE op = POOL_LEDGER_TXNS -> "poolTxnReceived"
      [] op = LEDGER_STATUS -> "processConsistencyProof"
      [] op = CONSISTENCY_PROOF -> "processLedgerStatus"
      [] op = CATCHUP_REP -> "processCatchupRep"

\* The handler each of the four if statements calls for its kind.
Handler(op) ==
    CASE op = POOL_LEDGER_TXNS -> "poolTxnReceived"
      [] op = LEDGER_STATUS -> "processLedgerStatus"
      [] op = CONSISTENCY_PROOF -> "processConsistencyProof"
      [] op = CATCHUP_REP -> "processCatchupRep"

handleOneNodeMsg(msg, frm) ==
    /\ Len(inBox) < MaxInbox
    /\ inBox' = Append(inBox, <<msg, frm>>)
    /\ lastOp' =
           [op |-> "handleOneNodeMsg", msg |-> msg, frm |-> frm,
            forwarded |->
                IF "op" \in DOMAIN msg /\ msg.op \in typs /\ hasLedger
                THEN {[handler |-> Handler(t), frm |-> frm] :
                         t \in {k \in typs : msg.op = k}}
                ELSE {}]
    /\ UNCHANGED <<config, mode, status, conns, lastReqId,
                   reqsPendingConnection, sent, created>>

Receive == \E msg \in NodeMsgs, frm \in nodeReg : handleOneNodeMsg(msg, frm)

NextInbox == Receive

\* The inbox on its own: a client that only receives.
SpecInbox == Init /\ [][NextInbox]_vars

\* ------------------------------------------------------------------ gate
Operations == {"opA", "opB"}
defaultIdentifier == "client"
signers == [client |-> "signerOfClient"]
Identifiers == {None, "ghost"}

going == {"starting", "started_hungry", "started"}
isGoing(st) == st \in going

\* One connection short of the threshold counts as enough.
hasSufficientConnectionsOffByOne(c) == Cardinality(c) >= minNodesToConnect - 1

hasSufficientConnections(c) == Cardinality(c) >= minNodesToConnect

\* A lookup that falls back to the default signer.
getSignerOrDefault(identifier) ==
    LET key == IF identifier = None THEN defaultIdentifier ELSE identifier
    IN  IF key \in DOMAIN signers THEN signers[key]
        ELSE signers[defaultIdentifier]

getSigner(identifier) ==
    LET key == IF identifier = None THEN defaultIdentifier ELSE identifier
    IN  IF key \in DOMAIN signers THEN signers[key] ELSE None

\* A request counter that is read but not advanced.
createRequestNoIncrement(last, operation, identifier) ==
    [request |-> [identifier |-> IF identifier = None THEN defaultIdentifier
                                 ELSE identifier,
                  reqId |-> last + 1,
                  operation |-> operation],
     lastReqId |-> last]

createRequest(last, operation, identifier) ==
    [request |-> [identifier |-> IF identifier = None THEN defaultIdentifier
                                 ELSE identifier,
                  reqId |-> last + 1,
                  operation |-> operation],
     lastReqId |-> last + 1]

\* An enqueue that forgets the request.
pendReqsTillConnectionDropping(pending, request, signer) == pending

pendReqsTillConnection(pending, request, signer) ==
    Append(pending, [req |-> request, signer |-> signer])

\* A flush that pops from the right end of the deque.
flushMsgsPendingConnectionFromRight(pending, out) ==
    [pending |-> <<>>,
     sent |-> out \o [i \in 1..Len(pending) |-> pending[Len(pending) + 1 - i]]]

flushMsgsPendingConnection(pending, out) ==
    [pending |-> <<>>, sent |-> out \o pending]

\* The body of submit's loop, for the operations left.
RECURSIVE submitLoop(_, _, _)
submitLoop(ops, identifier, st) ==
    IF ops = <<>> THEN st
    ELSE LET made == createRequest(st.lastReqId, Head(ops), identifier)
             signer == getSigner(identifier)
             direct == mode = "discovered" /\ hasSufficientConnections(conns)
         IN  submitLoop(Tail(ops), identifier,
                 [lastReqId |-> made.lastReqId,
                  sent |-> IF direct
                           THEN Append(st.sent, [req |-> made.request,
                                                 signer |-> signer])
                           ELSE st.sent,
                  pending |-> IF direct THEN st.pending
                              ELSE pendReqsTillConnection(st.pending,
                                                          made.request, signer),
                  requests |-> Append(st.requests, made.request)])

OpLists == UNION {[1..n -> Operations] : n \in 0..MaxOps}

submit(ops, identifier) ==
    LET ident == IF identifier # None THEN identifier ELSE defaultIdentifier
        done == submitLoop(ops, ident,
                    [lastReqId |-> lastReqId, sent |-> sent,
                     pending |-> reqsPendingConnection, requests |-> <<>>])
    IN  /\ lastReqId + Len(ops) <= MaxReqId
        /\ lastReqId' = done.lastReqId
        /\ sent' = done.sent
        /\ reqsPendingConnection' = done.pending
        /\ created' = created \o done.requests
        /\ lastOp' = [op |-> "submit", operations |-> ops,
                      identifier |-> identifier, requests |-> done.requests]
        /\ UNCHANGED <<config, mode, status, conns, inBox>>

Submit == \E ops \in OpLists, identifier \in Identifiers : submit(ops, identifier)

\* Motor.start, then Client.start: a client that is not going starts its
\* stack and, with a ledger, begins to sync.
start ==
    /\ ~isGoing(status)
    /\ status' = "starting"
    /\ mode' = IF hasLedger THEN "starting" ELSE mode
    /\ lastOp' = [op |-> "start"]
    /\ UNCHANGED <<config, conns, lastReqId, reqsPendingConnection, inBox,
                   sent, created>>

\* Motor.stop with Client.onStopping.
stop ==
    /\ isGoing(status)
    /\ status' = "stopped"
    /\ mode' = IF hasLedger THEN None ELSE mode
    /\ lastOp' = [op |-> "stop"]
    /\ UNCHANGED <<config, conns, lastReqId, reqsPendingConnection, inBox,
                   sent, created>>

postPoolLedgerCaughtUp ==
    /\ hasLedger
    /\ mode = "starting"
    /\ mode' = "discovered"
    /\ lastOp' = [op |-> "postPoolLedgerCaughtUp"]
    /\ UNCHANGED <<config, status, conns, lastReqId, reqsPendingConnection,
                   inBox, sent, created>>

\* A status that falls back to starting below the threshold.
newStatusDemoting(st, newConns) ==
    IF Cardinality(newConns) = Cardinality(nodeReg) THEN "started"
    ELSE IF Cardinality(newConns) >= minNodesToConnect THEN "started_hungry"
    ELSE "starting"

\* The two tests taken in the other order.
newStatusThresholdFirst(st, newConns) ==
    IF Cardinality(newConns) >= minNodesToConnect THEN "started_hungry"
    ELSE IF Cardinality(newConns) = Cardinality(nodeReg) THEN "started"
    ELSE st

\* The status a going client takes in onConnsChanged.
newStatus(st, newConns) ==
    IF Cardinality(newConns) = Cardinality(nodeReg) THEN "started"
    ELSE IF Cardinality(newConns) >= minNodesToConnect THEN "started_hungry"
    ELSE st

\* A ledger status sent whether or not the client keeps a ledger.
sendLedgerStatusToRegardless(joined) == joined

\* The nodes onConnsChanged calls sendLedgerStatus for.
sendLedgerStatusTo(joined) == IF hasLedger THEN joined ELSE {}

\* onConnsChanged, called by the stack once it has set conns to newConns.
onConnsChanged(newConns, joined, left) ==
    LET flush == /\ isGoing(status)
                 /\ hasSufficientConnections(newConns)
                 /\ mode = "discovered"
        flushed == flushMsgsPendingConnection(reqsPendingConnection, sent)
    IN  /\ status' = IF ~isGoing(status) THEN status
                     ELSE newStatus(status, newConns)
        /\ reqsPendingConnection' = IF flush THEN flushed.pending
                                    ELSE reqsPendingConnection
        /\ sent' = IF flush THEN flushed.sent ELSE sent
        /\ lastOp' = [op |-> "onConnsChanged",
                      flushed |-> IF flush THEN Len(reqsPendingConnection)
                                  ELSE 0,
                      ledgerStatusTo |-> sendLedgerStatusTo(joined)]

\* prod: a going client services the stack's lifecycle, which reports the
\* nodes that joined and left.
ConnsChanged ==
    /\ isGoing(status)
    /\ \E joined \in SUBSET (nodeReg \ conns), left \in SUBSET conns :
           /\ joined \cup left # {}
           /\ conns' = (conns \cup joined) \ left
           /\ onConnsChanged((conns \cup joined) \ left, joined, left)
    /\ UNCHANGED <<config, mode, lastReqId, inBox, created>>

Next ==
    \/ start
    \/ stop
    \/ Submit
    \/ ConnsChanged
    \/ postPoolLedgerCaughtUp

Spec == Init /\ [][Next]_vars

\* The readiness gate alone, for every pool size up to MaxPool.
InitPool == InitFor(1..MaxPool)

NextPool ==
    \/ start
    \/ stop
    \/ ConnsChanged
    \/ postPoolLedgerCaughtUp

SpecPool == InitPool /\ [][NextPool]_vars

\* ------------------------------------------------------------------ reading the inbox
\* What the claims about the quorum speak of, read off the inbox directly.
IsReplyFor(entry, reqId) ==
    /\ "op" \in DOMAIN entry[1]
    /\ entry[1].op = REPLY
    /\ "result" \in DOMAIN entry[1]
    /\ entry[1].result.reqId = reqId

\* The entries on which the scan of the inbox raises KeyError.
IsUnreadable(entry) ==
    \/ "op" \notin DOMAIN entry[1]
    \/ entry[1].op = REPLY /\ "result" \notin DOMAIN entry[1]

Repliers(box, reqId) ==
    {n \in nodeReg : \E i \in 1..Len(box) :
                         IsReplyFor(box[i], reqId) /\ box[i][2] = n}

LastIndexOf(box, reqId, n) ==
    CHOOSE i \in 1..Len(box) :
        /\ IsReplyFor(box[i], reqId) /\ box[i][2] = n
        /\ \A j \in (i + 1)..Len(box) :
               ~(IsReplyFor(box[j], reqId) /\ box[j][2] = n)

LastResultOf(box, reqId, n) == box[LastIndexOf(box, reqId, n)][1].result

\* The replicas whose latest reply for reqId reports r.
Partition(box, reqId, r) ==
    {n \in Repliers(box, reqId) : LastResultOf(box, reqId, n) = r}

Diverge(box, reqId) ==
    \E m, n \in Repliers(box, reqId) :
        LastResultOf(box, reqId, m) # LastResultOf(box, reqId, n)

\* ------------------------------------------------------------------ C1
\* C1: getReply is monotone. Once it answers CONFIRMED with v for a request
\* id, it answers CONFIRMED with the same v after any further entry is
\* appended to the inbox. Stated here for the entries the claim names, the
\* ordinary replies for that id (also from a node already counted).
C1_ConfirmedStaysConfirmed ==
    [][\A id \in ReqIds :
          (/\ getReply(inBox, f, id).status = "CONFIRMED"
           /\ lastOp'.op = "handleOneNodeMsg"
           /\ IsReplyFor(<<lastOp'.msg, lastOp'.frm>>, id))
          => getReply(inBox', f, id) = getReply(inBox, f, id)]_vars

\* ------------------------------------------------------------------ C2
\* C2: for every request id, getReply answers NOT_FOUND when no node has an
\* ordinary reply for the id in the inbox, UNCONFIRMED when between 1 and f
\* distinct nodes have replied, and CONFIRMED with R when at least f+1
\* distinct nodes have replied and all their results equal R.
C2_OutcomeByReplyCount ==
    \A id \in ReqIds :
        LET group == Repliers(inBox, id)
            reply == getReply(inBox, f, id)
        IN  /\ group = {} => reply.status = "NOT_FOUND"
            /\ (1 <= Cardinality(group) /\ Cardinality(group) <= f)
                   => reply.status = "UNCONFIRMED"
            /\ \A r \in Results :
                   (/\ Cardinality(group) >= f + 1
                    /\ \A n \in group : LastResultOf(inBox, id, n) = r)
                   => reply = [status |-> "CONFIRMED", reply |-> r]

\* ------------------------------------------------------------------ C3
\* C3: when at least f+1 distinct nodes have replied for a request id, their
\* results diverge and some result is reported by more than f nodes,
\* getReply answers CONFIRMED with a result reported by more than f nodes.
C3_MajorityBeyondF ==
    \A id \in ReqIds :
        LET group == Repliers(inBox, id)
            reply == getReply(inBox, f, id)
        IN  (/\ Cardinality(group) >= f + 1
             /\ Diverge(inBox, id)
             /\ \E r \in Results : Cardinality(Partition(inBox, id, r)) > f)
            => /\ reply.status = "CONFIRMED"
               /\ Cardinality(Partition(inBox, id, reply.reply)) > f

\* ------------------------------------------------------------------ C4
\* C4: when at least f+1 distinct nodes have replied for a request id, their
\* results diverge and no result is reported by more than f nodes, getReply
\* answers with an outcome of its own, which is neither UNCONFIRMED nor
\* NOT_FOUND (nor CONFIRMED).
C4_DisagreementIsSurfaced ==
    \A id \in ReqIds :
        LET group == Repliers(inBox, id)
            reply == getReply(inBox, f, id)
        IN  (/\ Cardinality(group) >= f + 1
             /\ Diverge(inBox, id)
             /\ \A r \in Results : Cardinality(Partition(inBox, id, r)) <= f)
            => reply.status \notin {"UNCONFIRMED", "NOT_FOUND", "CONFIRMED"}

\* ------------------------------------------------------------------ readable inboxes
\* The inboxes with no entry on which the scan raises KeyError. On these the
\* outcomes by reply count and the majority beyond f are as stated.
Readable(box) == \A i \in 1..Len(box) : ~IsUnreadable(box[i])

OutcomeByReplyCountOnReadable == Readable(inBox) => C2_OutcomeByReplyCount

MajorityBeyondFOnReadable == Readable(inBox) => C3_MajorityBeyondF

\* ------------------------------------------------------------------ C5
\* C5: the reply group getReply works on holds at most one reply per node,
\* the last one that node appended for the id; a node that replies several
\* times counts once toward f+1 and once in the partition sizes.
C5_OneReplyPerNode ==
    \A id \in ReqIds :
        LET got == getRepliesFromAllNodes(inBox, id)
            replies == got.replies
        IN  ~got.raised =>
              /\ \A i, j \in 1..Len(replies) :
                     replies[i][1] = replies[j][1] => i = j
              /\ {replies[i][1] : i \in 1..Len(replies)} = Repliers(inBox, id)
              /\ \A i \in 1..Len(replies) :
                     replies[i][2] =
                         inBox[LastIndexOf(inBox, id, replies[i][1])][1]
              /\ Len(replies) = Cardinality(Repliers(inBox, id))

\* A node has replied twice for request 1, with different results, and a
\* second node has replied too.
C5_Witness ==
    /\ ~getRepliesFromAllNodes(inBox, 1).raised
    /\ Len(inBox) = 3
    /\ Cardinality(Repliers(inBox, 1)) = 2
    /\ \E i, j \in 1..Len(inBox) :
           /\ i < j
           /\ IsReplyFor(inBox[i], 1) /\ IsReplyFor(inBox[j], 1)
           /\ inBox[i][2] = inBox[j][2]
           /\ inBox[i][1].result # inBox[j][1].result

\* ------------------------------------------------------------------ C6
ReqsOf(entries) == [i \in 1..Len(entries) |-> entries[i].req]

\* C6: once the ledger manager signals that catch-up is complete, the mode
\* is discovered and, if enough nodes are connected at that moment, every
\* queued request has been handed to the stack and the queue is empty.
C6_CaughtUpDrainsQueue ==
    [][lastOp'.op = "postPoolLedgerCaughtUp"
       => /\ mode' = "discovered"
          /\ Cardinality(conns') >= minNodesToConnect
                => /\ reqsPendingConnection' = <<>>
                   /\ sent' = sent \o reqsPendingConnection]_vars

\* ------------------------------------------------------------------ C7
\* C7: a request submitted while fewer than minNodesToConnect nodes are
\* connected is appended to the queue; a connection batch that leaves at
\* least minNodesToConnect nodes connected while the mode is discovered
\* hands every queued request to the stack, in the order of submission, and
\* leaves the queue empty.
C7_QueueThenFlushInOrder ==
    [][/\ \A i, j \in 1..Len(reqsPendingConnection) :
              i < j => reqsPendingConnection[i].req.reqId
                           < reqsPendingConnection[j].req.reqId
       /\ (lastOp'.op = "submit" /\ Cardinality(conns) < minNodesToConnect)
              => /\ ReqsOf(reqsPendingConnection')
                        = ReqsOf(reqsPendingConnection) \o lastOp'.requests
                 /\ sent' = sent
       /\ (/\ lastOp'.op = "onConnsChanged"
           /\ Cardinality(conns') >= minNodesToConnect
           /\ mode = "discovered")
              => /\ sent' = sent \o reqsPendingConnection
                 /\ reqsPendingConnection' = <<>>]_vars

\* A connection batch has just flushed two queued requests.
C7_Witness ==
    /\ lastOp.op = "onConnsChanged"
    /\ lastOp.flushed = 2
    /\ reqsPendingConnection = <<>>
    /\ Len(sent) >= 2
    /\ sent[Len(sent) - 1].req.reqId < sent[Len(sent)].req.reqId

\* ------------------------------------------------------------------ C8
\* C8: submit hands each created request to the stack at once exactly when
\* the mode is discovered and at least minNodesToConnect nodes are
\* connected, and appends it to the queue otherwise; it returns one request
\* per operation, in the order of the operations, on either branch.
C8_SendNowOrEnqueue ==
    [][lastOp'.op = "submit"
       => LET ops == lastOp'.operations
              ret == lastOp'.requests
          IN  /\ Len(ret) = Len(ops)
              /\ \A i \in 1..Len(ret) : ret[i].operation = ops[i]
              /\ IF mode = "discovered"
                    /\ Cardinality(conns) >= minNodesToConnect
                 THEN /\ ReqsOf(sent') = ReqsOf(sent) \o ret
                      /\ reqsPendingConnection' = reqsPendingConnection
                 ELSE /\ ReqsOf(reqsPendingConnection')
                             = ReqsOf(reqsPendingConnection) \o ret
                      /\ sent' = sent]_vars

\* One submit was queued and a later one went straight to the stack.
C8_Witness ==
    /\ lastOp.op = "submit"
    /\ Len(lastOp.requests) = 1
    /\ Len(reqsPendingConnection) = 1
    /\ Len(sent) = 1
    /\ sent[1].req = lastOp.requests[1]

\* ------------------------------------------------------------------ C9
\* C9: a request is handed to the stack, by submit or by the flush of the
\* queue, only when at least minNodesToConnect nodes are connected and the
\* mode is discovered at that moment, whatever the status is.
C9_DispatchOnlyWhenReady ==
    [][Len(sent') > Len(sent)
       => /\ Cardinality(conns') >= minNodesToConnect
          /\ mode' = "discovered"]_vars

\* A stopped client whose stack still lists enough nodes has sent a request.
C9_Witness ==
    /\ lastOp.op = "submit"
    /\ status = "stopped"
    /\ sent # <<>>
    /\ sent[Len(sent)].req \in {lastOp.requests[i] :
                                    i \in 1..Len(lastOp.requests)}

\* ------------------------------------------------------------------ C10
\* C10: request ids are never reused: each created request's id is one more
\* than the id of the request created before it, within one submit and
\* across submits, and lastReqId is the id of the latest created request.
C10_IdsIncreaseByOne ==
    /\ \A i \in 2..Len(created) :
           created[i].reqId = created[i - 1].reqId + 1
    /\ created # <<>> => lastReqId = created[Len(created)].reqId

\* A submit of two operations has created two requests.
C10_Witness ==
    /\ lastOp.op = "submit"
    /\ Len(lastOp.requests) = 2
    /\ created = lastOp.requests
    /\ lastReqId = 2

\* ------------------------------------------------------------------ C11
\* C11: on each connection batch the status is recomputed from the number
\* of connected nodes: started when it equals totalNodes, otherwise
\* started_hungry when it is at least minNodesToConnect, and otherwise the
\* status is left as it was.
C11_StatusRecomputedPerBatch ==
    [][lastOp'.op = "onConnsChanged"
       => status' = IF Cardinality(conns') = totalNodes THEN "started"
                    ELSE IF Cardinality(conns') >= minNodesToConnect
                    THEN "started_hungry"
                    ELSE status]_vars

\* A batch has left a started client with fewer nodes than the threshold.
C11_Witness ==
    /\ lastOp.op = "onConnsChanged"
    /\ Cardinality(conns) < minNodesToConnect
    /\ status = "started"

\* ------------------------------------------------------------------ C12
\* C12 (as stated): the status is a function of the number of connected
\* nodes alone; in particular it is not started while fewer than all nodes
\* are connected.
C12_StartedOnlyWhenAllConnected ==
    status = "started" => Cardinality(conns) = totalNodes

\* C12 (amended): after a batch that leaves at least minNodesToConnect nodes
\* connected the status is decided by the count alone, started when all are
\* connected and started_hungry otherwise; below the threshold the status
\* is the one the client had, so started goes with all or with fewer than
\* minNodesToConnect nodes connected, and started_hungry with fewer than all.
C12_StatusFromCountAboveThreshold ==
    /\ (lastOp.op = "onConnsChanged"
            /\ Cardinality(conns) >= minNodesToConnect)
           => status = IF Cardinality(conns) = totalNodes THEN "started"
                       ELSE "started_hungry"
    /\ status = "started"
           => \/ Cardinality(conns) = totalNodes
              \/ Cardinality(conns) < minNodesToConnect
    /\ status = "started_hungry" => Cardinality(conns) < totalNodes

\* A batch has left a started_hungry client below the threshold.
C12_Witness ==
    /\ lastOp.op = "onConnsChanged"
    /\ Cardinality(conns) < minNodesToConnect
    /\ status = "started_hungry"

\* ------------------------------------------------------------------ C13
\* C13: for a pool of n >= 1 nodes, f is the floor of (n-1)/3,
\* minNodesToConnect is f+1 and totalNodes is n; a pool of 4 gives f = 1
\* and 2 nodes to connect to, a pool of 7 gives f = 2 and 3.
C13_FaultParameters ==
    /\ totalNodes = Cardinality(nodeReg)
    /\ 3 * f <= totalNodes - 1
    /\ totalNodes - 1 < 3 * f + 3
    /\ minNodesToConnect = f + 1
    /\ totalNodes = 4 => (f = 1 /\ minNodesToConnect = 2)
    /\ totalNodes = 7 => (f = 2 /\ minNodesToConnect = 3)

\* A client of a pool of 7 has become started_hungry with 3 connections.
C13_Witness ==
    /\ totalNodes = 7
    /\ f = 2
    /\ Cardinality(conns) = 3
    /\ lastOp.op = "onConnsChanged"
    /\ status = "started_hungry"

\* ------------------------------------------------------------------ C14
\* The nodes getReply counts for a request id: the keys of the reply group,
\* and none when the scan raises and getReply answers NOT_FOUND.
Counted(box, reqId) ==
    LET got == getRepliesFromAllNodes(box, reqId)
    IN  IF got.raised THEN {}
        ELSE {got.replies[i][1] : i \in 1..Len(got.replies)}

\* Handling a message appends exactly one entry at the end of the inbox and
\* leaves the entries before it as they were.
InboxIsAppendOnly ==
    [][lastOp'.op = "handleOneNodeMsg"
       => inBox' = Append(inBox, <<lastOp'.msg, lastOp'.frm>>)]_vars

\* C14: the inbox is append-only and insertion-ordered: handling a message
\* appends exactly one entry at the end and no entry is removed, reordered
\* or changed, so the set of nodes getReply counts for a request id never
\* shrinks from one call to the next.
C14_AppendOnlySoCountNeverShrinks ==
    [][/\ Len(inBox') >= Len(inBox)
       /\ SubSeq(inBox', 1, Len(inBox)) = inBox
       /\ lastOp'.op = "handleOneNodeMsg"
              => inBox' = Append(inBox, <<lastOp'.msg, lastOp'.frm>>)
       /\ \A id \in ReqIds : Counted(inBox, id) \subseteq Counted(inBox', id)
      ]_vars

\* ------------------------------------------------------------------ C15
\* The identifiers submit can be given that have no signer.
Unsigned == {id \in Identifiers : id # None /\ id \notin DOMAIN signers}

\* The entries submit hands on for the requests it returns, unsigned.
UnsignedEntries(requests) ==
    [i \in 1..Len(requests) |-> [req |-> requests[i], signer |-> None]]

MatchingHandler ==
    [POOL_LEDGER_TXNS |-> "poolTxnReceived",
     LEDGER_STATUS |-> "processLedgerStatus",
     CONSISTENCY_PROOF |-> "processConsistencyProof",
     CATCHUP_REP |-> "processCatchupRep"]

C17_LedgerStatusToJoinedOnly ==
    [][lastOp'.op = "onConnsChanged"
       => lastOp'.ledgerStatusTo = IF hasLedger THEN conns' \ conns ELSE {}
      ]_vars

C17_Witness ==
    /\ hasLedger
    /\ lastOp.op = "onConnsChanged"
    /\ lastOp.ledgerStatusTo # {}
    /\ lastOp.ledgerStatusTo \subseteq conns
    /\ lastOp.ledgerStatusTo # conns

\* --------------------------------------------------------------- verifier
MaxSeqNo == 3
MaxReplies == 2

\* The transaction at each sequence number of the ledger the nodes hold.
Txn(seqNo) == IF seqNo % 2 = 1 THEN "tA" ELSE "tB"

\* Hashes are kept as terms, so that two hashes are equal only when they
\* were built from equal data: the hash of a leaf and the hash of two
\* children.
LeafHash(data) == <<"leaf", data>>
NodeHash(left, right) == <<"node", left, right>>

\* The largest power of two smaller than n, for n > 1.
RECURSIVE SplitPoint(_, _)
SplitPoint(n, k) == IF 2 * k < n THEN SplitPoint(n, 2 * k) ELSE k

\* CompactSerializer.serialize: the values of the fields, in field order.
serialize(fields) == <<fields["txn"]>>

\* The root hash of the ledger's entries lo..hi.
RECURSIVE TreeHash(_, _)
TreeHash(lo, hi) ==
    IF lo = hi THEN LeafHash(serialize([txn |-> Txn(lo)]))
    ELSE LET k == SplitPoint(hi - lo + 1, 1)
         IN  NodeHash(TreeHash(lo, lo + k - 1), TreeHash(lo + k, hi))

\* The audit path, leaf upwards, of entry m among the entries lo..hi.
RECURSIVE AuditPath(_, _, _)
AuditPath(m, lo, hi) ==
    IF lo = hi THEN <<>>
    ELSE LET k == SplitPoint(hi - lo + 1, 1)
         IN  IF m < lo + k
             THEN Append(AuditPath(m, lo, lo + k - 1), TreeHash(lo + k, hi))
             ELSE Append(AuditPath(m, lo + k, hi), TreeHash(lo, lo + k - 1))

\* The result an honest node returns for the entry at seqNo, with the proof
\* against the ledger of that size.
HonestResult(seqNo) ==
    [seqNo |-> seqNo, rootHash |-> TreeHash(1, seqNo),
     auditPath |-> AuditPath(seqNo, 1, seqNo), txn |-> Txn(seqNo)]

TamperedHash == LeafHash(<<"tampered">>)

\* A result with one thing changed: the entry, the root, or one sibling
\* hash of the path.
Tampered(res) ==
    {[res EXCEPT !.txn = "tampered"], [res EXCEPT !.rootHash = TamperedHash]}
    \cup {[res EXCEPT !.auditPath[i] = TamperedHash] :
              i \in 1..Len(res.auditPath)}

VerifyReplies ==
    {[result |-> r] :
        r \in UNION {{HonestResult(n)} \cup Tampered(HonestResult(n)) :
                        n \in 1..MaxSeqNo}}

ReplyLists == UNION {[1..k -> VerifyReplies] : k \in 0..MaxReplies}

\* The shifts of the path check that skip the levels where the node has no
\* sibling.
RECURSIVE ShiftWhileEven(_, _)
ShiftWhileEven(fn, sn) ==
    IF fn % 2 = 0 /\ fn # 0 THEN ShiftWhileEven(fn \div 2, sn \div 2)
    ELSE <<fn, sn>>

\* The root the audit path leads to from hash r of the node numbered fn,
\* where sn numbers the last node of the level.
RECURSIVE RootFromPath(_, _, _, _)
RootFromPath(r, fn, sn, path) ==
    IF path = <<>> THEN [ok |-> sn = 0, root |-> r]
    ELSE IF sn = 0 THEN [ok |-> FALSE, root |-> r]
    ELSE IF fn % 2 = 1 \/ fn = sn
         THEN LET s == ShiftWhileEven(fn, sn)
              IN  RootFromPath(NodeHash(Head(path), r),
                               s[1] \div 2, s[2] \div 2, Tail(path))
         ELSE RootFromPath(NodeHash(r, Head(path)),
                           fn \div 2, sn \div 2, Tail(path))

\* MerkleVerifier.verify_leaf_inclusion: TRUE when the proof holds, FALSE
\* when it raises ProofError.
verify_leaf_inclusion(leaf, leaf_index, proof, sth) ==
    LET calc == RootFromPath(LeafHash(leaf), leaf_index, sth.tree_size - 1,
                             proof)
    IN  /\ leaf_index < sth.tree_size
        /\ calc.ok
        /\ calc.root = sth.sha256_root_hash

ProofFields == {"auditPath", "seqNo", "rootHash"}

\* The methods a dict has for going through its entries.
DictMethods == {"items", "keys", "values"}

\* One pass of the loop of verifyMerkleProof for reply r.
verifyOne(r) ==
    LET res == r.result
        filtered == [k \in DOMAIN res \ ProofFields |-> res[k]]
    IN  IF "iteritems" \notin DictMethods THEN "AttributeError"
        ELSE IF verify_leaf_inclusion(serialize(filtered), res.seqNo - 1,
                    res.auditPath,
                    [tree_size |-> res.seqNo,
                     sha256_root_hash |-> res.rootHash])
        THEN "verified"
        ELSE "ProofError"

\* The loop from reply i on: True at the end, or the exception of the first
\* reply that raises, with the place of that reply.
RECURSIVE verifyLoop(_, _)
verifyLoop(replies, i) ==
    IF i > Len(replies) THEN [outcome |-> "True", at |-> 0]
    ELSE IF verifyOne(replies[i]) = "verified" THEN verifyLoop(replies, i + 1)
    ELSE [outcome |-> verifyOne(replies[i]), at |-> i]

verifyMerkleProof(replies) ==
    /\ lastOp' = [op |-> "verifyMerkleProof", replies |-> replies,
                  outcome |-> verifyLoop(replies, 1)]
    /\ UNCHANGED <<config, mode, status, conns, lastReqId,
                   reqsPendingConnection, inBox, sent, created>>

Verify == \E replies \in ReplyLists : verifyMerkleProof(replies)

NextVerify == Verify

\* The verifier on its own: a client whose replies are checked.
SpecVerify == Init /\ [][NextVerify]_vars

\* ------------------------------------------------------------------ C18
\* The proof of a reply holds: its path leads from the hash of the
\* serialized entry, at place seqNo - 1 of a tree of seqNo entries, to the
\* root the reply states.
ValidProof(r) ==
    LET res == r.result
    IN  verify_leaf_inclusion(serialize([txn |-> res.txn]), res.seqNo - 1,
            res.auditPath,
            [tree_size |-> res.seqNo, sha256_root_hash |-> res.rootHash])

\* C18: verifyMerkleProof over a list of replies returns True exactly when
\* the proof of every reply holds; otherwise it raises ProofError at the
\* first reply whose proof does not hold, and checks no reply after it.
C18_VerifyTrueIffAllProofsHold ==
    lastOp.op = "verifyMerkleProof"
    => LET rs == lastOp.replies
           bad == {i \in 1..Len(rs) : ~ValidProof(rs[i])}
       IN  IF bad = {} THEN lastOp.outcome = [outcome |-> "True", at |-> 0]
           ELSE /\ lastOp.outcome.outcome = "ProofError"
                /\ \A i \in bad : lastOp.outcome.at <= i
                /\ lastOp.outcome.at \in bad

\* ------------------------------------------------------------------ C19
\* Every reply for reqId that a node outside faulty has sent reports R.
HonestAgreeOn(box, reqId, faulty, R) ==
    \A i \in 1..Len(box) :
        (IsReplyFor(box[i], reqId) /\ box[i][2] \notin faulty)
            => box[i][1].result = R

\* C19: whichever set of at most f nodes is faulty, and whatever those nodes
\* reply and how often, when every other node that replies for a request id
\* reports the same result R, getReply never confirms a result other than R.
C19_NeverConfirmsAgainstHonestNodes ==
    \A id \in ReqIds :
        LET out == getReply(inBox, f, id)
        IN  out.status = "CONFIRMED"
            => \A faulty \in SUBSET nodeReg, R \in Results :
                   (/\ Cardinality(faulty) <= f
                    /\ R.reqId = id
                    /\ HonestAgreeOn(inBox, id, faulty, R))
                       => out.reply = R

\* A node that reported R2 is outvoted by two nodes that reported R1.
C19_Witness ==
    /\ f = 1
    /\ Partition(inBox, 1, [reqId |-> 1, val |-> "R2"]) = {3}
    /\ Partition(inBox, 1, [reqId |-> 1, val |-> "R1"]) = {1, 2}
    /\ HonestAgreeOn(inBox, 1, {3}, [reqId |-> 1, val |-> "R1"])
    /\ getReply(inBox, f, 1) =
           [status |-> "CONFIRMED", reply |-> [reqId |-> 1, val |-> "R1"]]

\* ------------------------------------------------------------------ C20
\* The request ids of a sequence of entries handed to the transport or
\* queued for it.
ReqIdsOf(entries) == [i \in 1..Len(entries) |-> entries[i].req.reqId]

\* C20: whatever the interleaving of submit, connection batches and
\* postPoolLedgerCaughtUp, the requests reach the transport in strictly
\* increasing order of request id, and no request has reached it while a
\* request with a smaller id is still in the pending queue.
C20_DispatchedInIdOrder ==
    LET out == ReqIdsOf(sent)
        waiting == ReqIdsOf(reqsPendingConnection)
    IN  /\ \A i, j \in 1..Len(out) : i < j => out[i] < out[j]
        /\ \A i \in 1..Len(out), j \in 1..Len(waiting) : out[i] < waiting[j]

\* ------------------------------------------------------------------ C21
\* How many entries of a sequence of requests are the request r.
Occurrences(reqs, r) == Cardinality({i \in 1..Len(reqs) : reqs[i] = r})

\* C21: no request is lost or duplicated: every request submit has returned
\* is either once in the pending queue and not handed to the stack, or
\* handed to the stack once and not in the queue; and the queue and the
\* stack hold no other request.
C21_NoRequestLostOrDuplicated ==
    LET out == ReqsOf(sent)
        waiting == ReqsOf(reqsPendingConnection)
    IN  /\ \A i \in 1..Len(created) :
               Occurrences(out, created[i]) + Occurrences(waiting, created[i])
                   = 1
        /\ Len(out) + Len(waiting) = Len(created)

\* Of two requests, one went to the stack at once or in an earlier flush and
\* the other has just been flushed from the queue.
C21_Witness ==
    /\ lastOp.op = "onConnsChanged"
    /\ lastOp.flushed = 1
    /\ Len(created) = 2
    /\ Len(sent) = 2
    /\ reqsPendingConnection = <<>>

\* ------------------------------------------------------------------ C22
\* Appending an entry that is no reply for a request id, and that the scan
\* can read, leaves the outcome for that id as it was.
OtherReadableEntryKeepsOutcome ==
    [][lastOp'.op = "handleOneNodeMsg"
       => \A id \in ReqIds :
              (/\ ~IsReplyFor(inBox'[Len(inBox')], id)
               /\ ~IsUnreadable(inBox'[Len(inBox')]))
                  => getReply(inBox', f, id) = getReply(inBox, f, id)]_vars

\* C22: the outcome of getReply for a request id depends only on the
\* entries of the inbox that are ordinary replies for that id: appending any
\* other entry, be it a pool-protocol message, a reply for another id, a
\* message without the operation tag or a reply without result, leaves the
\* outcome for that id as it was.
C22_OtherEntriesKeepOutcome ==
    [][lastOp'.op = "handleOneNodeMsg"
       => \A id \in ReqIds :
              ~IsReplyFor(inBox'[Len(inBox')], id)
                  => getReply(inBox', f, id) = getReply(inBox, f, id)]_vars
====
